---------------------------- MODULE Spec2Model ----------------------------
(***************************************************************************)
(* Model of the transcript correction and note extraction pipeline of      *)
(* src/pipeline/gemini_llm.py.  Text is a sequence of one-character        *)
(* strings, so that whitespace handling, substring replacement,            *)
(* tokenization, fence stripping and JSON parsing are computed the way     *)
(* the Python code computes them.                                          *)
(***************************************************************************)
EXTENDS Integers, Sequences, FiniteSets, TLC

VARIABLES
    fn,          \* function being invoked: "none", "correct" or "soap"
    pc,          \* "idle", "loop" (about to call the model), "returned", "raised"
    original,    \* the transcript exactly as the caller passed it
    transcript,  \* the local variable transcript (normalized once the loop is entered)
    prompt,      \* the prompt handed to the model
    attempt,     \* loop variable of for attempt in range(max_retries)
    calls,       \* number of generate_content calls made by this invocation
    resp,        \* what the model did on the latest call
    prev,        \* what the model did on the call before that one
    result,      \* text returned by correct_diarization
    note,        \* dict returned by generate_soap
    site,        \* source line of the return (or raise) that ended the invocation
    other,       \* the same eleven of a second caller's invocation, the one not running
    patients,          \* container patients: the documents stored in it
    soap_records,      \* container soap_records
    voice_recordings,  \* container voice_recordings
    logged_users,      \* container logged_users
    blobs,             \* blob storage: the paths that hold an uploaded recording
    now,               \* int(time.time()), the clock in whole seconds
    db_call,           \* the latest call of a patient or record function: arguments, locals, outcome
    user_call          \* per thread: its call of get_or_create_logged_user, with its position

pipeline == <<fn, pc, original, transcript, prompt, attempt, calls, resp, prev, result, note, site, other>>

database == <<patients, soap_records, voice_recordings, logged_users, blobs, now, db_call, user_call>>

vars == <<pipeline, database>>

---------------------------------------------------------------------------
(* Characters and strings                                                  *)

UpperToLower ==
    [A |-> "a", B |-> "b", C |-> "c", D |-> "d", E |-> "e", F |-> "f",
     G |-> "g", H |-> "h", I |-> "i", J |-> "j", K |-> "k", L |-> "l",
     M |-> "m", N |-> "n", O |-> "o", P |-> "p", Q |-> "q", R |-> "r",
     S |-> "s", T |-> "t", U |-> "u", V |-> "v", W |-> "w", X |-> "x",
     Y |-> "y", Z |-> "z"]

LowerLetters ==
    {UpperToLower[c] : c \in DOMAIN UpperToLower}

Digits ==
    {"0", "1", "2", "3", "4", "5", "6", "7", "8", "9"}

UpperLetters ==
    DOMAIN UpperToLower

WordChars ==
    UpperLetters \cup LowerLetters \cup Digits \cup {"_"}

\* \w of the re module: letters, digits and underscore
IsWordChar(c) ==
    c \in WordChars

Whitespace ==
    {" ", "\n", "\t", "\r"}

\* whitespace of str.strip(), str.split() and \s
IsSpace(c) ==
    c \in Whitespace

\* str.lower()
lower(s) ==
    [i \in 1..Len(s) |-> IF s[i] \in UpperLetters THEN UpperToLower[s[i]] ELSE s[i]]

RECURSIVE lstrip(_)
lstrip(s) ==
    IF s # <<>> /\ IsSpace(Head(s)) THEN lstrip(Tail(s)) ELSE s

RECURSIVE rstrip(_)
rstrip(s) ==
    IF s # <<>> /\ IsSpace(s[Len(s)]) THEN rstrip(SubSeq(s, 1, Len(s) - 1)) ELSE s

\* str.strip()
strip(s) ==
    rstrip(lstrip(s))

\* s[i:] with a 1-based i
From(s, i) ==
    SubSeq(s, i, Len(s))

\* the pattern p stands in s at position i
MatchAt(s, p, i) ==
    /\ i >= 1
    /\ i + Len(p) - 1 <= Len(s)
    /\ p = <<>> \/ s[i] = p[1]
    /\ SubSeq(s, i, i + Len(p) - 1) = p

\* s.startswith(p)
startswith(s, p) ==
    MatchAt(s, p, 1)

\* str.find from position i on, 1-based; 0 when p does not occur
RECURSIVE find(_, _, _)
find(s, p, i) ==
    IF i + Len(p) - 1 > Len(s) THEN 0
    ELSE IF MatchAt(s, p, i) THEN i
    ELSE find(s, p, i + 1)

\* p in s
Contains(s, p) ==
    find(s, p, 1) # 0

\* str.count(p): non-overlapping occurrences
RECURSIVE count(_, _)
count(s, p) ==
    LET i == find(s, p, 1)
    IN  IF i = 0 THEN 0 ELSE 1 + count(From(s, i + Len(p)), p)

\* length of the longest prefix of s whose characters all satisfy the test
RECURSIVE WordRun(_)
WordRun(s) ==
    IF s # <<>> /\ IsWordChar(Head(s)) THEN 1 + WordRun(Tail(s)) ELSE 0

RECURSIVE NonSpaceRun(_)
NonSpaceRun(s) ==
    IF s # <<>> /\ ~IsSpace(Head(s)) THEN 1 + NonSpaceRun(Tail(s)) ELSE 0

\* ' '.join(s.split())
RECURSIVE join_split(_)
join_split(s) ==
    LET t == lstrip(s)
    IN  IF t = <<>> THEN <<>>
        ELSE LET k == NonSpaceRun(t)
                 rest == join_split(From(t, k + 1))
             IN  IF rest = <<>> THEN SubSeq(t, 1, k)
                 ELSE SubSeq(t, 1, k) \o <<" ">> \o rest

\* re.compile(re.escape(error), re.IGNORECASE).sub(correct, s)
RECURSIVE sub_ignorecase(_, _, _)
sub_ignorecase(error, correct, s) ==
    IF s = <<>> THEN <<>>
    ELSE IF MatchAt(lower(s), error, 1)
         THEN correct \o sub_ignorecase(error, correct, From(s, Len(error) + 1))
         ELSE <<Head(s)>> \o sub_ignorecase(error, correct, Tail(s))

\* re.findall(r'\b\w+\b', s): the maximal runs of word characters
RECURSIVE findall_words(_)
findall_words(s) ==
    IF s = <<>> THEN <<>>
    ELSE IF ~IsWordChar(Head(s)) THEN findall_words(Tail(s))
    ELSE LET k == WordRun(s)
         IN  <<SubSeq(s, 1, k)>> \o findall_words(From(s, k + 1))

\* str.splitlines() for the line break "\n"
RECURSIVE splitlines(_)
splitlines(s) ==
    IF s = <<>> THEN <<>>
    ELSE LET k == find(s, <<"\n">>, 1)
         IN  IF k = 0 THEN <<s>>
             ELSE <<SubSeq(s, 1, k - 1)>> \o splitlines(From(s, k + 1))

\* '\n'.join(lines)
RECURSIVE join_lines(_)
join_lines(lines) ==
    IF lines = <<>> THEN <<>>
    ELSE IF Len(lines) = 1 THEN lines[1]
    ELSE lines[1] \o <<"\n">> \o join_lines(Tail(lines))

\* index of the last occurrence of the character c in s, 0 when there is none
RECURSIVE rfind_char(_, _)
rfind_char(s, c) ==
    IF s = <<>> THEN 0
    ELSE IF s[Len(s)] = c THEN Len(s)
    ELSE rfind_char(SubSeq(s, 1, Len(s) - 1), c)

---------------------------------------------------------------------------
(* Constants of the source                                                 *)

max_retries ==
    2

\* the character U+0060, which a string literal of this language cannot hold
Backtick ==
    "backtick"
DoctorMarker ==
    <<"D", "o", "c", "t", "o", "r", ":">>
doctor_marker ==
    <<"d", "o", "c", "t", "o", "r", ":">>
PatientMarker ==
    <<"P", "a", "t", "i", "e", "n", "t", ":">>
patient_marker ==
    <<"p", "a", "t", "i", "e", "n", "t", ":">>
Fence ==
    <<Backtick, Backtick, Backtick>>
FenceJson ==
    <<Backtick, Backtick, Backtick, "j", "s", "o", "n">>
NotDiscussed ==
    <<"N", "o", "t", " ", "d", "i", "s", "c", "u", "s", "s", "e", "d">>
KeySubjective ==
    <<"S", "u", "b", "j", "e", "c", "t", "i", "v", "e">>
KeyObjective ==
    <<"O", "b", "j", "e", "c", "t", "i", "v", "e">>
KeyAssessment ==
    <<"A", "s", "s", "e", "s", "s", "m", "e", "n", "t">>
KeyPlan ==
    <<"P", "l", "a", "n">>
medical_corrections ==
    << [correct |-> <<"h", "y", "p", "e", "r", "t", "e", "n", "s", "i", "o", "n">>,
        error |-> <<"h", "i", "g", "h", " ", "p", "e", "r", "t", "e", "n", "s", "i", "o", "n">>],
       [correct |-> <<"h", "y", "p", "e", "r", "t", "e", "n", "s", "i", "o", "n">>,
        error |-> <<"h", "y", "p", "e", "r", " ", "t", "e", "n", "s", "i", "o", "n">>],
       [correct |-> <<"d", "i", "a", "b", "e", "t", "e", "s", " ", "m", "e", "l", "l", "i", "t", "u", "s">>,
        error |-> <<"d", "i", "a", "b", "e", "t", "e", " ", "s", "m", "e", "l", "l", "i", "t", "u", "s">>],
       [correct |-> <<"d", "i", "a", "b", "e", "t", "e", "s", " ", "m", "e", "l", "l", "i", "t", "u", "s">>,
        error |-> <<"d", "i", "a", "b", "e", "t", "u", "s">>],
       [correct |-> <<"d", "i", "a", "b", "e", "t", "e", "s", " ", "m", "e", "l", "l", "i", "t", "u", "s">>,
        error |-> <<"d", "i", "a", "b", "e", "t", "e", "s", " ", "m", "e", "l", "l", "i", "t", "a", "s">>],
       [correct |-> <<"m", "y", "o", "c", "a", "r", "d", "i", "a", "l", " ", "i", "n", "f", "a", "r", "c", "t", "i", "o", "n">>,
        error |-> <<"m", "y", "o", "c", "a", "r", "d", "i", "a", "l", " ", "i", "n", " ", "f", "r", "a", "c", "t", "i", "o", "n">>],
       [correct |-> <<"p", "r", "e", "s", "c", "r", "i", "p", "t", "i", "o", "n">>,
        error |-> <<"p", "e", "r", "s", "c", "r", "i", "p", "t", "i", "o", "n">>],
       [correct |-> <<"m", "e", "d", "i", "c", "a", "t", "i", "o", "n">>,
        error |-> <<"m", "e", "d", "i", "c", "t", "i", "o", "n">>],
       [correct |-> <<"s", "y", "m", "p", "t", "o", "m", "s">>,
        error |-> <<"s", "y", "m", "p", "t", "o", "m">>],
       [correct |-> <<"s", "y", "m", "p", "t", "o", "m", "s">>,
        error |-> <<"s", "i", "m", "p", "t", "o", "m", "s">>],
       [correct |-> <<"d", "i", "a", "g", "n", "o", "s", "i", "s">>,
        error |-> <<"d", "i", "a", "g", "n", "o", "s", "e", "s">>],
       [correct |-> <<"d", "i", "a", "g", "n", "o", "s", "i", "s">>,
        error |-> <<"d", "i", "a", "g", "n", "o", "s", "y", "s">>] >>
\* a correction template that shows its output format as a literal brace pair,
\* the way SOAP_GENERATION_PROMPT does
DIARIZATION_CORRECTION_PROMPT_with_example ==
    <<"{", "\"", "D", "o", "c", "t", "o", "r", "\"", "}", "\n",
      "{", "t", "r", "a", "n", "s", "c", "r", "i", "p", "t", "}">>

\* the template from its heading "### Input Transcript:" on (source lines 76-80);
\* the lines before it hold no brace
DIARIZATION_CORRECTION_PROMPT ==
    <<"#", "#", "#", " ", "I", "n", "p", "u", "t", " ", "T", "r", "a", "n",
      "s", "c", "r", "i", "p", "t", ":", "\n", "{", "t", "r", "a", "n", "s",
      "c", "r", "i", "p", "t", "}", "\n", "\n", "#", "#", "#", " ", "C", "o",
      "r", "r", "e", "c", "t", "e", "d", " ", "T", "r", "a", "n", "s", "c",
      "r", "i", "p", "t", ":", "\n">>

\* the template from its heading "### Doctor-Patient Conversation:" on (source
\* lines 142-156); the lines before it hold no brace
SOAP_GENERATION_PROMPT ==
    <<"#", "#", "#", " ", "D", "o", "c", "t", "o", "r", "-", "P", "a", "t",
      "i", "e", "n", "t", " ", "C", "o", "n", "v", "e", "r", "s", "a", "t",
      "i", "o", "n", ":", "\n", "{", "t", "r", "a", "n", "s", "c", "r", "i",
      "p", "t", "}", "\n", "\n", "#", "#", "#", " ", "O", "u", "t", "p", "u",
      "t", " ", "F", "o", "r", "m", "a", "t", " ", "(", "J", "S", "O", "N",
      " ", "o", "n", "l", "y", ")", ":", "\n", Backtick, Backtick, Backtick, "j", "s", "o",
      "n", "\n", "{", "\n", " ", " ", "\"", "S", "u", "b", "j", "e", "c", "t",
      "i", "v", "e", "\"", ":", " ", "\"", "P", "a", "t", "i", "e", "n", "t",
      " ", "r", "e", "p", "o", "r", "t", "s", ".", ".", ".", "\"", ",", "\n",
      " ", " ", "\"", "O", "b", "j", "e", "c", "t", "i", "v", "e", "\"", ":",
      " ", "\"", "V", "i", "t", "a", "l", " ", "s", "i", "g", "n", "s", ":",
      " ", "B", "P", " ", "1", "2", "0", "/", "8", "0", ".", ".", ".", "\"",
      ",", "\n", " ", " ", "\"", "A", "s", "s", "e", "s", "s", "m", "e", "n",
      "t", "\"", ":", " ", "\"", "P", "r", "i", "m", "a", "r", "y", " ", "d",
      "i", "a", "g", "n", "o", "s", "i", "s", ":", " ", ".", ".", ".", "\"",
      ",", "\n", " ", " ", "\"", "P", "l", "a", "n", "\"", ":", " ", "\"", "1",
      ".", " ", "M", "e", "d", "i", "c", "a", "t", "i", "o", "n", ":", " ",
      ".", ".", ".", " ", "2", ".", " ", "F", "o", "l", "l", "o", "w", "-",
      "u", "p", ":", " ", ".", ".", ".", "\"", "\n", "}", "\n", Backtick, Backtick, Backtick,
      "\n", "\n", "#", "#", "#", " ", "S", "O", "A", "P", " ", "N", "o", "t",
      "e", " ", "J", "S", "O", "N", ":", "\n">>

---------------------------------------------------------------------------
(* Core functions                                                          *)

RECURSIVE apply_corrections(_, _, _)
apply_corrections(text, transcript_lower, k) ==
    IF k > Len(medical_corrections) THEN text
    ELSE LET e == medical_corrections[k]
         IN  apply_corrections(
                 IF Contains(transcript_lower, e.error)
                 THEN sub_ignorecase(e.error, e.correct, text)
                 ELSE text,
                 transcript_lower, k + 1)

preprocess_transcript(text) ==
    IF text = <<>> \/ strip(text) = <<>> THEN text
    ELSE LET collapsed == join_split(text)
         IN  apply_corrections(collapsed, lower(collapsed), 1)

\* the structural check with line 216 asking for both counts to be zero
validate_speaker_labels_either_marker(text) ==
    IF text = <<>> \/ strip(text) = <<>> THEN FALSE
    ELSE LET has_doctor == Contains(text, DoctorMarker) \/ Contains(text, doctor_marker)
             has_patient == Contains(text, PatientMarker) \/ Contains(text, patient_marker)
             doctor_count == count(lower(text), doctor_marker)
             patient_count == count(lower(text), patient_marker)
         IN  IF ~(has_doctor \/ has_patient) THEN FALSE
             ELSE IF doctor_count = 0 /\ patient_count = 0 THEN FALSE
             ELSE TRUE

validate_speaker_labels(text) ==
    IF text = <<>> \/ strip(text) = <<>> THEN FALSE
    ELSE LET has_doctor == Contains(text, DoctorMarker) \/ Contains(text, doctor_marker)
             has_patient == Contains(text, PatientMarker) \/ Contains(text, patient_marker)
             doctor_count == count(lower(text), doctor_marker)
             patient_count == count(lower(text), patient_marker)
         IN  IF ~(has_doctor \/ has_patient) THEN FALSE
             ELSE IF doctor_count = 0 \/ patient_count = 0 THEN FALSE
             ELSE TRUE

\* the word check comparing the sets of words, as its error message does,
\* where line 233 compares the lists
validate_correction_as_sets(orig, corrected) ==
    LET orig_words == findall_words(lower(orig))
        corr_words == findall_words(lower(corrected))
    IN  {orig_words[i] : i \in DOMAIN orig_words}
            = {corr_words[i] : i \in DOMAIN corr_words}

\* the word check comparing how often each word occurs, whatever the order
validate_correction_as_multisets(orig, corrected) ==
    LET orig_words == findall_words(lower(orig))
        corr_words == findall_words(lower(corrected))
    IN  /\ Len(orig_words) = Len(corr_words)
        /\ \A i \in DOMAIN orig_words :
               Cardinality({j \in DOMAIN orig_words : orig_words[j] = orig_words[i]})
                   = Cardinality({j \in DOMAIN corr_words : corr_words[j] = orig_words[i]})

validate_correction(orig, corrected) ==
    findall_words(lower(orig)) = findall_words(lower(corrected))

\* re.search of the json-tagged fence pattern (line 253) with re.DOTALL: the
\* text between the tag and the first closing fence after it, without the
\* whitespace at either end
fenced_json_group(text) ==
    LET p == find(text, FenceJson, 1)
        q == p + Len(FenceJson) + Len(From(text, p + Len(FenceJson)))
                 - Len(lstrip(From(text, p + Len(FenceJson))))
        f == find(text, Fence, q)
    IN  IF p = 0 \/ f = 0 THEN [matched |-> FALSE, group |-> <<>>]
        ELSE [matched |-> TRUE, group |-> rstrip(SubSeq(text, q, f - 1))]

\* the brace pattern never matching, so that lines 267-268 are left out
brace_span_not_searched(text) ==
    [matched |-> FALSE, group |-> <<>>]

\* re.search of the greedy brace pattern (line 266) with re.DOTALL: from the
\* first opening brace to the last closing brace
brace_span(text) ==
    LET a == find(text, <<"{">>, 1)
        b == rfind_char(text, "}")
    IN  IF a = 0 \/ b < a THEN [matched |-> FALSE, group |-> <<>>]
        ELSE [matched |-> TRUE, group |-> SubSeq(text, a, b)]

clean_json_response(raw) ==
    LET text == strip(raw)
        unfenced ==
            IF Contains(text, FenceJson)
            THEN LET m == fenced_json_group(text)
                 IN  IF m.matched THEN strip(m.group) ELSE text
            ELSE IF startswith(text, Fence)
            THEN LET lines1 == Tail(splitlines(text))
                     lines2 == IF lines1 # <<>> /\ strip(lines1[Len(lines1)]) = Fence
                               THEN SubSeq(lines1, 1, Len(lines1) - 1)
                               ELSE lines1
                 IN  strip(join_lines(lines2))
            ELSE text
        json_match == brace_span(unfenced)
    IN  IF json_match.matched THEN json_match.group ELSE unfenced


\* str.format(transcript=value): "{{" and "}}" are literal braces, "{transcript}"
\* is replaced by value, and every other replacement field or a lone brace
\* raises (KeyError, IndexError or ValueError)
RECURSIVE str_format(_, _)
str_format(template, value) ==
    LET Raised == [raised |-> TRUE, text |-> <<>>]
        Then(prefix, tail) ==
            LET r == str_format(tail, value)
            IN  IF r.raised THEN Raised ELSE [raised |-> FALSE, text |-> prefix \o r.text]
        FieldTranscript == <<"{", "t", "r", "a", "n", "s", "c", "r", "i", "p", "t", "}">>
        braces == {j \in 1..Len(template) : template[j] \in {"{", "}"}}
        b == CHOOSE j \in braces : \A h \in braces : j <= h
        literal == SubSeq(template, 1, b - 1)
    IN  IF braces = {} THEN [raised |-> FALSE, text |-> template]
        ELSE IF MatchAt(template, <<"{", "{">>, b) THEN Then(literal \o <<"{">>, From(template, b + 2))
        ELSE IF MatchAt(template, <<"}", "}">>, b) THEN Then(literal \o <<"}">>, From(template, b + 2))
        ELSE IF MatchAt(template, FieldTranscript, b)
             THEN Then(literal \o value, From(template, b + Len(FieldTranscript)))
        ELSE Raised

---------------------------------------------------------------------------
(* json.loads                                                              *)
(* A parsed value is a record: t is its type, s its text (the decoded      *)
(* characters of a string, the source characters of anything else) and d   *)
(* the dict of an object, as a function from keys to parsed values.        *)

JsonValue(type, text, dict) ==
    [t |-> type, s |-> text, d |-> dict]

Str(text) ==
    JsonValue("str", text, <<>>)

JsonFail ==
    [ok |-> FALSE, nxt |-> 0, val |-> JsonValue("none", <<>>, <<>>)]

JsonOk(next, value) ==
    [ok |-> TRUE, nxt |-> next, val |-> value]

\* first position from i on that holds no whitespace (the whitespace of
\* json.decoder and the \s of the salvage pattern)
RECURSIVE skip_space(_, _)
skip_space(s, i) ==
    IF i <= Len(s) /\ IsSpace(s[i]) THEN skip_space(s, i + 1) ELSE i

\* number of digits that stand in s from position i on
RECURSIVE digit_run(_, _)
digit_run(s, i) ==
    IF i <= Len(s) /\ s[i] \in Digits THEN 1 + digit_run(s, i + 1) ELSE 0

CharAt(s, i) ==
    IF i >= 1 /\ i <= Len(s) THEN s[i] ELSE "end"

\* the characters of a string after its opening quote: up to the closing quote,
\* with the escapes for quote, backslash, slash, n, t and r decoded; a raw
\* control character, any other escape or a missing closing quote fails
RECURSIVE json_string_tail(_, _, _)
json_string_tail(s, i, acc) ==
    LET c == CharAt(s, i)
        e == CharAt(s, i + 1)
    IN  IF i > Len(s) THEN JsonFail
        ELSE IF c = "\"" THEN JsonOk(i + 1, Str(acc))
        ELSE IF c \in {"\n", "\t", "\r"} THEN JsonFail
        ELSE IF c = "\\"
             THEN IF e \in {"\"", "\\", "/"} THEN json_string_tail(s, i + 2, Append(acc, e))
                  ELSE IF e = "n" THEN json_string_tail(s, i + 2, Append(acc, "\n"))
                  ELSE IF e = "t" THEN json_string_tail(s, i + 2, Append(acc, "\t"))
                  ELSE IF e = "r" THEN json_string_tail(s, i + 2, Append(acc, "\r"))
                  ELSE JsonFail
        ELSE json_string_tail(s, i + 1, Append(acc, c))

\* NUMBER_RE of json.scanner: integer part, optional fraction, optional exponent
json_number(s, i) ==
    LET j == IF CharAt(s, i) = "-" THEN i + 1 ELSE i
        int_end == IF CharAt(s, j) = "0" THEN j + 1 ELSE j + digit_run(s, j)
        frac_end == IF CharAt(s, int_end) = "." /\ digit_run(s, int_end + 1) > 0
                    THEN int_end + 1 + digit_run(s, int_end + 1)
                    ELSE int_end
        k == IF CharAt(s, frac_end + 1) \in {"+", "-"} THEN frac_end + 2 ELSE frac_end + 1
        exp_end == IF CharAt(s, frac_end) \in {"e", "E"} /\ digit_run(s, k) > 0
                   THEN k + digit_run(s, k)
                   ELSE frac_end
    IN  IF CharAt(s, j) \notin Digits THEN JsonFail
        ELSE JsonOk(exp_end, JsonValue("num", SubSeq(s, i, exp_end - 1), <<>>))

\* a constant of the scanner: null, true and false, and the floats NaN,
\* Infinity and -Infinity
json_literal(s, i, word, type) ==
    IF MatchAt(s, word, i)
    THEN JsonOk(i + Len(word), JsonValue(type, word, <<>>))
    ELSE JsonFail

RECURSIVE json_value(_, _)
RECURSIVE json_members(_, _, _, _)
RECURSIVE json_items(_, _, _)

\* scan_once of json.scanner: the value that starts at position i
json_value(s, i) ==
    LET c == CharAt(s, i)
    IN  IF c = "\"" THEN json_string_tail(s, i + 1, <<>>)
        ELSE IF c = "{"
             THEN LET j == skip_space(s, i + 1)
                  IN  IF CharAt(s, j) = "}"
                      THEN JsonOk(j + 1, JsonValue("obj", SubSeq(s, i, j), <<>>))
                      ELSE json_members(s, i, j, <<>>)
        ELSE IF c = "["
             THEN LET j == skip_space(s, i + 1)
                  IN  IF CharAt(s, j) = "]"
                      THEN JsonOk(j + 1, JsonValue("arr", SubSeq(s, i, j), <<>>))
                      ELSE json_items(s, i, j)
        ELSE IF c = "n" THEN json_literal(s, i, <<"n", "u", "l", "l">>, "lit")
        ELSE IF c = "t" THEN json_literal(s, i, <<"t", "r", "u", "e">>, "lit")
        ELSE IF c = "f" THEN json_literal(s, i, <<"f", "a", "l", "s", "e">>, "lit")
        ELSE IF json_number(s, i).ok THEN json_number(s, i)
        ELSE IF c = "N" THEN json_literal(s, i, <<"N", "a", "N">>, "num")
        ELSE IF c = "I" THEN json_literal(s, i, <<"I", "n", "f", "i", "n", "i", "t", "y">>, "num")
        ELSE IF c = "-" THEN json_literal(s, i, <<"-", "I", "n", "f", "i", "n", "i", "t", "y">>, "num")
        ELSE JsonFail

\* JSONObject of json.decoder: the members of the object opened at position
\* start, the next key being expected at position i; a later duplicate of a key
\* replaces the earlier one
json_members(s, start, i, dict) ==
    LET key == IF CharAt(s, i) = "\"" THEN json_string_tail(s, i + 1, <<>>) ELSE JsonFail
        colon == skip_space(s, key.nxt)
        value == json_value(s, skip_space(s, colon + 1))
        after == skip_space(s, value.nxt)
        dict2 == (key.val.s :> value.val) @@ dict
    IN  IF ~key.ok \/ CharAt(s, colon) # ":" THEN JsonFail
        ELSE IF ~value.ok THEN JsonFail
        ELSE IF CharAt(s, after) = "}"
             THEN JsonOk(after + 1, JsonValue("obj", SubSeq(s, start, after), dict2))
        ELSE IF CharAt(s, after) = ","
             THEN json_members(s, start, skip_space(s, after + 1), dict2)
        ELSE JsonFail

\* JSONArray of json.decoder: the items of the array opened at position start,
\* the next item being expected at position i
json_items(s, start, i) ==
    LET value == json_value(s, i)
        after == skip_space(s, value.nxt)
    IN  IF ~value.ok THEN JsonFail
        ELSE IF CharAt(s, after) = "]"
             THEN JsonOk(after + 1, JsonValue("arr", SubSeq(s, start, after), <<>>))
        ELSE IF CharAt(s, after) = ","
             THEN json_items(s, start, skip_space(s, after + 1))
        ELSE JsonFail

\* json.loads(text): one value with nothing but whitespace around it; ok is
\* FALSE where json.loads raises JSONDecodeError
json_loads(text) ==
    LET r == json_value(text, skip_space(text, 1))
    IN  IF r.ok /\ skip_space(text, r.nxt) = Len(text) + 1 THEN r ELSE JsonFail

---------------------------------------------------------------------------
(* Notes                                                                   *)

required_keys ==
    <<KeySubjective, KeyObjective, KeyAssessment, KeyPlan>>

RequiredKeySet ==
    {required_keys[i] : i \in 1..Len(required_keys)}

Placeholders ==
    { <<"n", "/", "a">>, <<"n", "a">>, <<"n", "o", "n", "e">> }

\* the fallback note with empty strings where "Not discussed" stands
_empty_soap_note_of_empty_strings ==
    [k \in RequiredKeySet |-> Str(<<>>)]

_empty_soap_note ==
    [k \in RequiredKeySet |-> Str(NotDiscussed)]

\* the repair with the values line 297 warns about, those shorter than ten
\* characters, replaced as well
repaired_value_replacing_short(value) ==
    IF value.s = <<>> \/ value.t # "str" \/ strip(value.s) = <<>> THEN Str(NotDiscussed)
    ELSE IF lower(strip(value.s)) \in Placeholders THEN Str(NotDiscussed)
    ELSE IF Len(value.s) < 10 THEN Str(NotDiscussed)
    ELSE value

\* lines 286-294: the value a required key holds after the repair
repaired_value(value) ==
    IF value.s = <<>> \/ value.t # "str" \/ strip(value.s) = <<>> THEN Str(NotDiscussed)
    ELSE IF lower(strip(value.s)) \in Placeholders THEN Str(NotDiscussed)
    ELSE value

\* the dict returned as the second component; the first is always True
validate_soap_json(soap_dict) ==
    LET with_keys == [k \in DOMAIN soap_dict \cup RequiredKeySet |->
                         IF k \in DOMAIN soap_dict THEN soap_dict[k] ELSE Str(NotDiscussed)]
    IN  [k \in DOMAIN with_keys |->
            IF k \in RequiredKeySet THEN repaired_value(with_keys[k]) ELSE with_keys[k]]

\* _log_soap_metrics returns normally iff every value of the dict is a string:
\* len() or .split() raises on anything else
_log_soap_metrics_raises(soap_dict) ==
    \E k \in DOMAIN soap_dict : soap_dict[k].t # "str"

\* the pattern of line 514 tried at position i, where the quoted section name
\* stands: the position after the opening quote of the value, 0 when the
\* pattern does not match there
salvage_value_start(text, quoted, i) ==
    LET colon == skip_space(text, i + Len(quoted))
        open == skip_space(text, colon + 1)
    IN  IF CharAt(text, colon) = ":" /\ CharAt(text, open) = "\""
           /\ find(text, <<"\"">>, open + 1) # 0
        THEN open + 1 ELSE 0

\* re.search: the leftmost position from i on where the pattern matches
RECURSIVE salvage_search(_, _, _)
salvage_search(text, quoted, i) ==
    LET j == find(text, quoted, i)
    IN  IF j = 0 THEN 0
        ELSE IF salvage_value_start(text, quoted, j) # 0 THEN j
        ELSE salvage_search(text, quoted, j + 1)

\* match.group(1) for one section, or the sentinel when there is no match
salvage_section(text, section) ==
    LET quoted == <<"\"">> \o section \o <<"\"">>
        at == salvage_search(text, quoted, 1)
        from == salvage_value_start(text, quoted, at)
    IN  IF at = 0 THEN NotDiscussed
        ELSE SubSeq(text, from, find(text, <<"\"">>, from) - 1)

\* the dict with the sections that were found only, none for the others
_salvage_json_of_found_sections(text) ==
    [k \in {s \in RequiredKeySet :
                salvage_search(text, <<"\"">> \o s \o <<"\"">>, 1) # 0} |->
        Str(salvage_section(text, k))]

\* the dict returned; re.search does not raise on a str, so the except branch
\* and the return of None are never taken
_salvage_json(text) ==
    [k \in RequiredKeySet |-> Str(salvage_section(text, k))]

---------------------------------------------------------------------------
(* Inputs: transcripts and model behaviours                                *)

\* longest transcript, counted in pieces
MaxTranscriptPieces ==
    3

\* longest model response to the correction prompt, counted in pieces
MaxResponsePieces ==
    3

RECURSIVE Flatten(_)
Flatten(ps) ==
    IF ps = <<>> THEN <<>> ELSE Head(ps) \o Flatten(Tail(ps))

\* every text made of at most n of the given pieces
TextsOf(pieces, n) ==
    {Flatten(ps) : ps \in UNION {[1..k -> pieces] : k \in 0..n}}

WordIve ==
    <<" ", "I", "'", "v", "e">>

WordSymptom ==
    <<" ", "s", "y", "m", "p", "t", "o", "m">>

WordSymptoms ==
    <<" ", "s", "y", "m", "p", "t", "o", "m", "s">>

PatientLine ==
    <<"\n", "P", "a", "t", "i", "e", "n", "t", ":">>

Blank ==
    <<" ">>

TranscriptPieces ==
    {DoctorMarker, PatientLine, WordIve, WordSymptom}

\* a transcript whose Doctor marker is written in lower case
LowerCaseDoctor ==
    doctor_marker \o WordIve \o PatientLine

\* a transcript that normalization changes
SymptomTranscript ==
    DoctorMarker \o WordSymptom \o PatientLine

\* a transcript that stands in a code fence
FencedTranscript ==
    Fence \o <<"\n">> \o DoctorMarker \o PatientLine \o <<"\n">> \o Fence

\* a transcript whose two markers are written in capitals
UpperCaseMarkers ==
    <<"D", "O", "C", "T", "O", "R", ":">> \o WordIve
        \o <<"\n", "P", "A", "T", "I", "E", "N", "T", ":">>

\* the transcripts handed to either stage: the texts made of the pieces, a
\* whitespace-only one, one with a lower-case marker, one with both markers
\* in capitals and one in a code fence
Transcripts ==
    TextsOf(TranscriptPieces, MaxTranscriptPieces)
        \cup {Blank, LowerCaseDoctor, UpperCaseMarkers, FencedTranscript}

ResponsePieces ==
    {DoctorMarker, PatientLine, WordIve, WordSymptoms}

\* a response wrapped in a code fence, the fence lines on their own
Fenced(text) ==
    Fence \o <<"\n">> \o text \o <<"\n">> \o Fence

\* the texts the model answers the correction prompt with, bare or fenced,
\* and the transcript that normalization changes handed back as it is
CorrectionResponses ==
    TextsOf(ResponsePieces, MaxResponsePieces)
        \cup {Fenced(t) : t \in TextsOf(ResponsePieces, MaxResponsePieces - 1)}
        \cup {SymptomTranscript}

\* what one generate_content call can do: raise, or hand back a response whose
\* text may be empty
ModelRaises ==
    [kind |-> "raise", text |-> <<>>]

ModelReturns(text) ==
    [kind |-> "text", text |-> text]

NoResponse ==
    [kind |-> "none", text |-> <<>>]

CorrectionBehaviours ==
    {ModelRaises} \cup {ModelReturns(t) : t \in CorrectionResponses}

NoNote ==
    <<>>

\* longest model response to the extraction prompt, counted in pieces
MaxSoapResponsePieces ==
    3

OpenSubjective ==
    <<"{", "\"", "S", "u", "b", "j", "e", "c", "t", "i", "v", "e", "\"", ":", "\"", "c", "o", "u", "g", "h", "\"">>

ExtraString ==
    <<",", "\"", "E", "x", "t", "r", "a", "\"", ":", "\"", "e", "\"">>

ExtraNumber ==
    <<",", "\"", "E", "x", "t", "r", "a", "\"", ":", "5">>

EmptyPlan ==
    <<",", "\"", "P", "l", "a", "n", "\"", ":", " ", "\"", "\"">>

Seven ==
    <<"7">>

OpenFenceJson ==
    FenceJson \o <<"\n">>

CloseBraceAndFence ==
    <<"}", "\n">> \o Fence

SoapResponsePieces ==
    {OpenSubjective, ExtraString, ExtraNumber, EmptyPlan, Seven,
     OpenFenceJson, CloseBraceAndFence}

\* a note with a short value, a placeholder within spaces in capitals, a
\* number and a value of whitespace only:
\* {"Subjective":"cough","Objective":" N/A ","Assessment":5,"Plan":" "}
PlaceholderNote ==
    <<"{", "\"", "S", "u", "b", "j", "e", "c", "t", "i", "v", "e", "\"",
     ":", "\"", "c", "o", "u", "g", "h", "\"", ",", "\"", "O", "b", "j",
     "e", "c", "t", "i", "v", "e", "\"", ":", "\"", " ", "N", "/", "A",
     " ", "\"", ",", "\"", "A", "s", "s", "e", "s", "s", "m", "e", "n",
     "t", "\"", ":", "5", ",", "\"", "P", "l", "a", "n", "\"", ":",
     "\"", " ", "\"", "}">>

\* a json-tagged fenced block with words before and after the note:
\* (fence)json / note {"Subjective":"cough"} end / (fence)
FencedNoteInProse ==
    <<Backtick, Backtick, Backtick, "j", "s", "o", "n", "\n", "n", "o",
     "t", "e", " ", "{", "\"", "S", "u", "b", "j", "e", "c", "t", "i",
     "v", "e", "\"", ":", "\"", "c", "o", "u", "g", "h", "\"", "}", " ",
     "e", "n", "d", "\n", Backtick, Backtick, Backtick>>

\* two objects side by side with words before, between and after them:
\* see {"Subjective":"cough"} and {"Plan":"rest"} end
TwoNotes ==
    <<"s", "e", "e", " ", "{", "\"", "S", "u", "b", "j", "e", "c", "t",
     "i", "v", "e", "\"", ":", "\"", "c", "o", "u", "g", "h", "\"", "}",
     " ", "a", "n", "d", " ", "{", "\"", "P", "l", "a", "n", "\"", ":",
     "\"", "r", "e", "s", "t", "\"", "}", " ", "e", "n", "d">>

\* a text that is no JSON, with a section name that no value follows, the
\* same name twice with a value and a value that is never closed:
\* "Plan" first, "Plan" : "rest", "Plan":"walk", "Subjective":"cough
UnparsedSections ==
    <<"\"", "P", "l", "a", "n", "\"", " ", "f", "i", "r", "s", "t", ",",
     " ", "\"", "P", "l", "a", "n", "\"", " ", ":", " ", "\"", "r", "e",
     "s", "t", "\"", ",", " ", "\"", "P", "l", "a", "n", "\"", ":",
     "\"", "w", "a", "l", "k", "\"", ",", " ", "\"", "S", "u", "b", "j",
     "e", "c", "t", "i", "v", "e", "\"", ":", "\"", "c", "o", "u", "g",
     "h">>

\* what the model may do on a call of generate_soap: raise, or answer with a
\* text made of the pieces or with one of the texts above
ExtractionBehaviours ==
    {ModelRaises}
        \cup {ModelReturns(t) : t \in TextsOf(SoapResponsePieces, MaxSoapResponsePieces)}
        \cup {ModelReturns(PlaceholderNote), ModelReturns(FencedNoteInProse),
              ModelReturns(TwoNotes), ModelReturns(UnparsedSections)}

---------------------------------------------------------------------------
(* correct_diarization                                                     *)

\* every pass taken for the last one, so that no exception is retried
every_attempt_is_final ==
    TRUE

\* lines 385 and 476: the pass at hand is the last one
final_attempt ==
    attempt = max_retries - 1

\* a return statement at the given source line
Return(value, n, line) ==
    /\ pc' = "returned"
    /\ result' = value
    /\ note' = n
    /\ site' = line

\* lines 323-340: the two early returns, normalization and the prompt
correct_diarization_enter(T) ==
    /\ fn' = "correct"
    /\ original' = T
    /\ calls' = 0
    /\ attempt' = 0
    /\ resp' = NoResponse
    /\ prev' = NoResponse
    /\ IF T = <<>> \/ strip(T) = <<>>
       THEN /\ Return(T, NoNote, 325)
            /\ UNCHANGED <<transcript, prompt>>
       ELSE IF ~validate_speaker_labels(T)
       THEN /\ Return(T, NoNote, 330)
            /\ UNCHANGED <<transcript, prompt>>
       ELSE \E normalized \in {preprocess_transcript(T)} :
            \E p \in {str_format(DIARIZATION_CORRECTION_PROMPT, normalized)} :
                /\ transcript' = normalized
                /\ IF p.raised
                   THEN /\ pc' = "raised"
                        /\ site' = 337
                        /\ UNCHANGED <<prompt, result, note>>
                   ELSE /\ pc' = "loop"
                        /\ prompt' = p.text
                        /\ UNCHANGED <<result, note, site>>

\* lines 359-363: the text that is checked and, when accepted, returned
sanitized_correction(text) ==
    LET corrected == strip(text)
    IN  IF Contains(corrected, Fence) THEN clean_json_response(corrected) ELSE corrected

\* the rejection returning the normalized text, not the text as passed in
reject_correction_returns_normalized ==
    Return(transcript, NoNote, 370)

\* lines 367-370: the word check failed
reject_correction ==
    Return(original, NoNote, 370)

\* the accepted correction dropped for the transcript as passed in
accept_correction_returns_original(corrected) ==
    Return(original, NoNote, 380)

\* lines 372-380: the word check passed
accept_correction(corrected) ==
    Return(corrected, NoNote, 380)

\* the exhausted loop returning the normalized text, not the text as passed in
all_attempts_failed_returns_normalized ==
    Return(transcript, NoNote, 389)

\* lines 387-389: the loop ran out of passes
all_attempts_failed ==
    Return(original, NoNote, 389)

\* lines 359-363 for each thing the model may do: the response once
\* sanitized (corrected) and its word tokens as line 231 finds them (words)
correction_values ==
    [b \in CorrectionBehaviours |->
        LET corrected == sanitized_correction(b.text)
        IN  [corrected |-> corrected,
             words |-> findall_words(lower(corrected))]] @@ <<>>

\* lines 342-393: one pass of the retry loop, with the model doing b
correct_diarization_attempt(b) ==
    /\ calls' = calls + 1
    /\ resp' = b
    /\ prev' = resp
    /\ UNCHANGED <<fn, original, transcript, prompt>>
    /\ IF b.kind = "raise"
       THEN IF final_attempt
            THEN /\ Return(original, NoNote, 393)
                 /\ UNCHANGED attempt
            ELSE /\ attempt' = attempt + 1
                 /\ UNCHANGED <<pc, result, note, site>>
       ELSE IF b.text = <<>>
       THEN /\ attempt' = attempt + 1
            /\ IF attempt + 1 = max_retries
               THEN all_attempts_failed
               ELSE UNCHANGED <<pc, result, note, site>>
       ELSE \E corrected \in {correction_values[b].corrected} :
                /\ UNCHANGED attempt
                /\ IF ~validate_correction(transcript, corrected)
                   THEN reject_correction
                   ELSE accept_correction(corrected)

---------------------------------------------------------------------------
(* generate_soap                                                           *)

\* lines 411-422: the early return, normalization and the prompt
generate_soap_enter(T) ==
    /\ fn' = "soap"
    /\ original' = T
    /\ calls' = 0
    /\ attempt' = 0
    /\ resp' = NoResponse
    /\ prev' = NoResponse
    /\ IF T = <<>> \/ strip(T) = <<>>
       THEN /\ Return(<<>>, _empty_soap_note, 413)
            /\ UNCHANGED <<transcript, prompt>>
       ELSE \E normalized \in {preprocess_transcript(T)} :
            \E p \in {str_format(SOAP_GENERATION_PROMPT, normalized)} :
                /\ transcript' = normalized
                /\ IF p.raised
                   THEN /\ pc' = "raised"
                        /\ site' = 419
                        /\ UNCHANGED <<prompt, result, note>>
                   ELSE /\ pc' = "loop"
                        /\ prompt' = p.text
                        /\ UNCHANGED <<result, note, site>>

\* the salvaged note dropped and the pass counted as failed, as the raise of
\* line 471 would do
discard_salvaged(salvaged) ==
    IF attempt = max_retries - 1
    THEN /\ Return(<<>>, _empty_soap_note, 484)
         /\ UNCHANGED attempt
    ELSE /\ attempt' = attempt + 1
         /\ UNCHANGED <<pc, result, note, site>>

\* lines 460-468: parsing failed and _salvage_json handed back a note
accept_salvaged(salvaged) ==
    /\ Return(<<>>, salvaged, 468)
    /\ UNCHANGED attempt

\* lines 436-462 for each thing the model may do: the response once
\* sanitized (text), what json.loads makes of it (parsed) and what
\* _salvage_json finds in it (salvaged)
response_values ==
    [b \in ExtractionBehaviours |->
        LET text == clean_json_response(strip(b.text))
        IN  [text |-> text,
             parsed |-> json_loads(text),
             salvaged |-> _salvage_json(text)]] @@ <<>>

\* lines 424-484: one pass of the retry loop, with the model doing b
generate_soap_attempt(b) ==
    \E text \in {response_values[b].text} :
    \E parsed \in {response_values[b].parsed} :
    LET repaired == validate_soap_json(parsed.val.d)
        salvaged == response_values[b].salvaged
        \* an exception reaches the handler of line 473
        caught ==
            \/ b.kind = "raise"
            \/ /\ b.text # <<>>
               /\ parsed.ok
               /\ \/ parsed.val.t # "obj"               \* line 450: result.keys()
                  \/ _log_soap_metrics_raises(repaired)  \* line 457
    IN  /\ calls' = calls + 1
        /\ resp' = b
        /\ prev' = resp
        /\ UNCHANGED <<fn, original, transcript, prompt>>
        /\ IF caught
           THEN IF final_attempt
                THEN /\ Return(<<>>, _empty_soap_note, 484)
                     /\ UNCHANGED attempt
                ELSE /\ attempt' = attempt + 1
                     /\ UNCHANGED <<pc, result, note, site>>
           ELSE IF b.text = <<>>
           THEN /\ attempt' = attempt + 1
                /\ IF attempt + 1 = max_retries
                   THEN Return(<<>>, _empty_soap_note, 480)
                   ELSE UNCHANGED <<pc, result, note, site>>
           ELSE IF parsed.ok
           THEN /\ Return(<<>>, repaired, 458)
                /\ UNCHANGED attempt
           ELSE accept_salvaged(salvaged)

---------------------------------------------------------------------------
(* The caller                                                              *)

Idle ==
    /\ fn = "none"
    /\ pc = "idle"
    /\ original = <<>>
    /\ transcript = <<>>
    /\ prompt = <<>>
    /\ attempt = 0
    /\ calls = 0
    /\ resp = NoResponse
    /\ prev = NoResponse
    /\ result = <<>>
    /\ note = NoNote
    /\ site = 0

\* an invocation as the values of its locals, and the one at hand
Invocation(f, p, o, t, q, a, c, r, v, x, n, l) ==
    [fn |-> f, pc |-> p, original |-> o, transcript |-> t, prompt |-> q,
     attempt |-> a, calls |-> c, resp |-> r, prev |-> v, result |-> x,
     note |-> n, site |-> l]

running ==
    Invocation(fn, pc, original, transcript, prompt, attempt, calls, resp, prev,
               result, note, site)

\* a caller that has made no call
not_calling ==
    Invocation("none", "idle", <<>>, <<>>, <<>>, 0, 0, NoResponse, NoResponse,
               <<>>, NoNote, 0)

\* the threads that call get_or_create_logged_user
DbCallers ==
    {"first", "second"}

\* no call of a patient or record function has been made
no_call ==
    [op |-> "none", pc |-> "idle", patient_id |-> 0, user_id |-> <<>>,
     found_by |-> "none", patient |-> {}, returned |-> {}, error |-> "none"]

\* a thread that is not in get_or_create_logged_user and has not been
no_user_call ==
    [pc |-> "idle", email |-> <<>>, existing |-> {}, returned |-> {}]

\* the containers as ensure_containers_exist leaves them, and the clock
DatabaseInit ==
    /\ patients = {}
    /\ soap_records = {}
    /\ voice_recordings = {}
    /\ logged_users = {}
    /\ blobs = {}
    /\ now = 1
    /\ db_call = no_call
    /\ user_call = [c \in DbCallers |-> no_user_call]

Init ==
    /\ Idle
    /\ other = not_calling
    /\ DatabaseInit

\* the invocation is over and the caller makes the next one
next_invocation ==
    /\ pc \in {"returned", "raised"}
    /\ fn' = "none"
    /\ pc' = "idle"
    /\ original' = <<>>
    /\ transcript' = <<>>
    /\ prompt' = <<>>
    /\ attempt' = 0
    /\ calls' = 0
    /\ resp' = NoResponse
    /\ prev' = NoResponse
    /\ result' = <<>>
    /\ note' = NoNote
    /\ site' = 0
    /\ UNCHANGED other
    /\ UNCHANGED database

\* a call of correct_diarization with some transcript
call_correct_diarization ==
    /\ pc = "idle"
    /\ \E T \in Transcripts : correct_diarization_enter(T)
    /\ UNCHANGED other
    /\ UNCHANGED database

\* a call of generate_soap with some transcript
call_generate_soap ==
    /\ pc = "idle"
    /\ \E T \in Transcripts : generate_soap_enter(T)
    /\ UNCHANGED other
    /\ UNCHANGED database

\* the next pass of the loop of correct_diarization, the model doing anything
correct_diarization_loop ==
    /\ pc = "loop"
    /\ fn = "correct"
    /\ attempt < max_retries
    /\ \E b \in CorrectionBehaviours : correct_diarization_attempt(b)
    /\ UNCHANGED other
    /\ UNCHANGED database

\* the next pass of the loop of generate_soap, the model doing anything
generate_soap_loop ==
    /\ pc = "loop"
    /\ fn = "soap"
    /\ attempt < max_retries
    /\ \E b \in ExtractionBehaviours : generate_soap_attempt(b)
    /\ UNCHANGED other
    /\ UNCHANGED database

Next ==
    \/ call_correct_diarization
    \/ correct_diarization_loop
    \/ call_generate_soap
    \/ next_invocation

Spec ==
    Init /\ [][Next]_vars

---------------------------------------------------------------------------
(* The retry loop of generate_soap on its own                              *)
(* str_format raises on SOAP_GENERATION_PROMPT for every transcript, so no  *)
(* behaviour of Spec enters lines 424-484.  SpecRetryLoop starts           *)
(* generate_soap at line 424, with the transcript normalized and a prompt  *)
(* at hand, to state what the loop does with the responses it is written   *)
(* to handle.                                                              *)

SoapTranscripts ==
    {DoctorMarker \o WordSymptom \o PatientLine}

\* the transcripts as passed in, each with its normalized form (line 416)
SoapLoopEntries ==
    {[original |-> T, transcript |-> preprocess_transcript(T)] : T \in SoapTranscripts}

retry_loop_entry(T) ==
    /\ fn = "soap"
    /\ pc = "loop"
    /\ original = T
    /\ transcript = preprocess_transcript(T)
    /\ prompt = preprocess_transcript(T)
    /\ attempt = 0
    /\ calls = 0
    /\ resp = NoResponse
    /\ prev = NoResponse
    /\ result = <<>>
    /\ note = NoNote
    /\ site = 0

RetryLoopInit ==
    /\ \E T \in SoapTranscripts : retry_loop_entry(T)
    /\ other = not_calling
    /\ DatabaseInit

\* the invocation is over and the loop is entered afresh
retry_loop_again ==
    /\ pc = "returned"
    /\ fn' = "soap"
    /\ pc' = "loop"
    /\ \E entry \in SoapLoopEntries :
           /\ original' = entry.original
           /\ transcript' = entry.transcript
           /\ prompt' = entry.transcript
    /\ attempt' = 0
    /\ calls' = 0
    /\ resp' = NoResponse
    /\ prev' = NoResponse
    /\ result' = <<>>
    /\ note' = NoNote
    /\ site' = 0
    /\ UNCHANGED other
    /\ UNCHANGED database

RetryLoopNext ==
    \/ generate_soap_loop
    \/ retry_loop_again

SpecRetryLoop ==
    RetryLoopInit /\ [][RetryLoopNext]_vars


---------------------------------------------------------------------------
(* Both retry loops                                                        *)
(* SpecBothLoops is Spec with generate_soap also taken up at line 424, so   *)
(* that what the two loops do with the same model behaviour can be stated  *)
(* side by side.                                                           *)

\* generate_soap taken up at line 424, the transcript normalized
call_generate_soap_loop ==
    /\ pc = "idle"
    /\ fn' = "soap"
    /\ pc' = "loop"
    /\ \E entry \in SoapLoopEntries :
           /\ original' = entry.original
           /\ transcript' = entry.transcript
           /\ prompt' = entry.transcript
    /\ attempt' = 0
    /\ calls' = 0
    /\ resp' = NoResponse
    /\ prev' = NoResponse
    /\ result' = <<>>
    /\ note' = NoNote
    /\ site' = 0
    /\ UNCHANGED other
    /\ UNCHANGED database

BothLoopsNext ==
    \/ call_correct_diarization
    \/ correct_diarization_loop
    \/ call_generate_soap
    \/ call_generate_soap_loop
    \/ generate_soap_loop
    \/ next_invocation

SpecBothLoops ==
    Init /\ [][BothLoopsNext]_vars

---------------------------------------------------------------------------
(* Two callers                                                             *)
(* Two threads call the two functions at the same time.  The functions     *)
(* keep what they work on in locals and assign no module-level name, so    *)
(* each thread has the locals of its own invocation; the threads take      *)
(* turns between the steps of an invocation.  generate_soap is also taken  *)
(* up at line 424, as in SpecBothLoops, with a transcript of its own.      *)

IveTranscript ==
    DoctorMarker \o WordIve \o PatientLine

TwoCallersTranscripts ==
    {Blank, IveTranscript, LowerCaseDoctor}

TwoCallersCorrections ==
    {ModelRaises, ModelReturns(<<>>), ModelReturns(IveTranscript),
     ModelReturns(DoctorMarker \o PatientLine \o WordIve)}

TwoCallersExtractions ==
    {ModelRaises, ModelReturns(<<>>), ModelReturns(Seven), ModelReturns(OpenSubjective),
     ModelReturns(OpenFenceJson \o OpenSubjective \o CloseBraceAndFence)}

\* the other thread going on with the pass counter as this thread leaves
\* it, as a counter kept at module level would be
take_over_sharing_attempt ==
    /\ other' = running
    /\ fn' = other.fn
    /\ pc' = other.pc
    /\ original' = other.original
    /\ transcript' = other.transcript
    /\ prompt' = other.prompt
    /\ attempt' = attempt
    /\ calls' = other.calls
    /\ resp' = other.resp
    /\ prev' = other.prev
    /\ result' = other.result
    /\ note' = other.note
    /\ site' = other.site
    /\ UNCHANGED database

\* the other thread is scheduled: the invocation at hand is set aside with
\* its locals and the other one goes on with its own
take_over ==
    /\ other' = running
    /\ fn' = other.fn
    /\ pc' = other.pc
    /\ original' = other.original
    /\ transcript' = other.transcript
    /\ prompt' = other.prompt
    /\ attempt' = other.attempt
    /\ calls' = other.calls
    /\ resp' = other.resp
    /\ prev' = other.prev
    /\ result' = other.result
    /\ note' = other.note
    /\ site' = other.site
    /\ UNCHANGED database

two_callers_correct_diarization ==
    /\ pc = "idle"
    /\ \E T \in TwoCallersTranscripts : correct_diarization_enter(T)
    /\ UNCHANGED other
    /\ UNCHANGED database

two_callers_generate_soap ==
    /\ pc = "idle"
    /\ \E T \in TwoCallersTranscripts : generate_soap_enter(T)
    /\ UNCHANGED other
    /\ UNCHANGED database

two_callers_correct_diarization_loop ==
    /\ pc = "loop"
    /\ fn = "correct"
    /\ attempt < max_retries
    /\ \E b \in TwoCallersCorrections : correct_diarization_attempt(b)
    /\ UNCHANGED other
    /\ UNCHANGED database

two_callers_generate_soap_loop ==
    /\ pc = "loop"
    /\ fn = "soap"
    /\ attempt < max_retries
    /\ \E b \in TwoCallersExtractions : generate_soap_attempt(b)
    /\ UNCHANGED other
    /\ UNCHANGED database

TwoCallersNext ==
    \/ two_callers_correct_diarization
    \/ two_callers_correct_diarization_loop
    \/ two_callers_generate_soap
    \/ call_generate_soap_loop
    \/ two_callers_generate_soap_loop
    \/ next_invocation
    \/ take_over

SpecTwoCallers ==
    Init /\ [][TwoCallersNext]_vars

---------------------------------------------------------------------------
(* Vocabulary of the properties                                            *)

\* text with every occurrence of pat taken out
RECURSIVE remove_all(_, _)
remove_all(text, pat) ==
    IF text = <<>> THEN <<>>
    ELSE IF startswith(text, pat) THEN remove_all(From(text, Len(pat) + 1), pat)
    ELSE <<Head(text)>> \o remove_all(Tail(text), pat)

\* the words that are spoken: the word tokens of the text without its markers
spoken_words(text) ==
    findall_words(lower(remove_all(remove_all(text, DoctorMarker), PatientMarker)))

\* the markers of the text in the order they stand in
RECURSIVE speaker_turns(_)
speaker_turns(text) ==
    IF text = <<>> THEN <<>>
    ELSE IF startswith(text, DoctorMarker)
         THEN <<"Doctor">> \o speaker_turns(From(text, Len(DoctorMarker) + 1))
    ELSE IF startswith(text, PatientMarker)
         THEN <<"Patient">> \o speaker_turns(From(text, Len(PatientMarker) + 1))
    ELSE speaker_turns(Tail(text))

\* the word tokens validate_correction compares
word_tokens(text) ==
    findall_words(lower(text))

\* the invocation at hand is over
Finished ==
    pc \in {"returned", "raised"}

\* the latest response is a json-tagged fenced block holding a mapping with
\* some of the required keys and no other key, each value a string that is
\* not empty once trimmed and is no placeholder
fenced_partial_note ==
    /\ fn = "soap"
    /\ resp.kind = "text"
    /\ startswith(strip(resp.text), FenceJson)
    /\ LET parsed == response_values[resp].parsed
       IN  /\ parsed.ok
           /\ parsed.val.t = "obj"
           /\ DOMAIN parsed.val.d # {}
           /\ DOMAIN parsed.val.d \subseteq RequiredKeySet
           /\ DOMAIN parsed.val.d # RequiredKeySet
           /\ \A k \in DOMAIN parsed.val.d :
                  /\ parsed.val.d[k].t = "str"
                  /\ strip(parsed.val.d[k].s) # <<>>
                  /\ lower(strip(parsed.val.d[k].s)) \notin Placeholders

\* the note returned holds the values of the latest response as given and
\* "Not discussed" under every required key the response leaves out
given_values_kept ==
    LET given == response_values[resp].parsed.val.d
    IN  /\ pc = "returned"
        /\ note = [k \in RequiredKeySet |->
                      IF k \in DOMAIN given THEN given[k] ELSE Str(NotDiscussed)]

---------------------------------------------------------------------------
(* Properties of correct_diarization and generate_soap, under Spec         *)

\* C1: generate_soap never raises to its caller: for every transcript and
\* whatever the model does, the invocation ends in a returned note
C1_extract_never_raises ==
    fn = "soap" => pc # "raised"

\* C2: correct_diarization never raises to its caller: it leaves the loop
\* after at most max_retries passes with a value, and when the model raises on
\* the final pass that value is the transcript as it was passed in
C2_correct_never_raises ==
    fn = "correct" =>
        /\ pc # "raised"
        /\ pc = "loop" => attempt < max_retries
        /\ pc = "returned" /\ resp.kind = "raise" =>
               /\ calls = max_retries
               /\ site = 393
               /\ result = original

\* C2, its case: the model raised on both passes of a transcript that
\* normalization changes, and the transcript came back as passed in
C2_final_raise_returns_original ==
    /\ fn = "correct"
    /\ pc = "returned"
    /\ resp.kind = "raise"
    /\ calls = max_retries
    /\ original # transcript
    /\ result = original

\* C3: a response that holds the spoken words of the input in the same order
\* under the same sequence of markers, so that it differs from the input only
\* in the speaker line some words sit on, is accepted and returned
C3_moved_words_accepted ==
    /\ fn = "correct"
    /\ pc = "returned"
    /\ resp.kind = "text"
    /\ resp.text # <<>>
    /\ spoken_words(resp.text) = spoken_words(original)
    /\ speaker_turns(resp.text) = speaker_turns(original)
    => /\ site = 380
       /\ result = sanitized_correction(resp.text)

\* C4 as stated: the word tokens of an accepted result are those of the
\* transcript as it was passed in, before normalization
C4_accepted_keeps_input_tokens ==
    fn = "correct" /\ pc = "returned" /\ site = 380 =>
        word_tokens(result) = word_tokens(original)

\* C4 amended: the word tokens of an accepted result are those of the
\* normalized transcript, the text validate_correction is given
C4_accepted_keeps_normalized_tokens ==
    fn = "correct" /\ pc = "returned" /\ site = 380 =>
        word_tokens(result) = word_tokens(preprocess_transcript(original))

\* C4, its case: a result was accepted whose word tokens are not those of
\* the transcript as passed in, normalization having changed a word
C4_accepted_after_vocabulary_correction ==
    /\ fn = "correct"
    /\ pc = "returned"
    /\ site = 380
    /\ result = sanitized_correction(resp.text)
    /\ word_tokens(original) # word_tokens(preprocess_transcript(original))

\* C5: a non-empty response whose word tokens are not those of the normalized
\* transcript ends the invocation at once: the loop is left without another
\* call and the value returned is the transcript as it was passed in
C5_mismatch_is_final ==
    /\ fn = "correct"
    /\ resp.kind = "text"
    /\ resp.text # <<>>
    /\ correction_values[resp].words # word_tokens(transcript)
    => /\ pc = "returned"
       /\ site = 370
       /\ result = original

\* C5, its case: the first response failed the word check with a pass left,
\* and what came back is neither the normalized text nor the response
C5_first_mismatch_returns_original ==
    /\ fn = "correct"
    /\ pc = "returned"
    /\ site = 370
    /\ calls = 1
    /\ calls < max_retries
    /\ result = original
    /\ original # transcript
    /\ original # sanitized_correction(resp.text)

\* C6: a transcript that is blank, or in which the Doctor marker or the
\* Patient marker (read in any letter case) does not occur, comes back
\* unchanged without a model call
C6_unstructured_returned_unchanged ==
    /\ fn = "correct"
    /\ \/ strip(original) = <<>>
       \/ ~Contains(lower(original), doctor_marker)
       \/ ~Contains(lower(original), patient_marker)
    => /\ pc = "returned"
       /\ result = original
       /\ calls = 0
       /\ resp = NoResponse
       /\ prev = NoResponse

\* C6, its case: a transcript with a Doctor marker and words but no Patient
\* marker came back unchanged, the model not called
C6_one_marker_returned_unchanged ==
    /\ fn = "correct"
    /\ pc = "returned"
    /\ site = 330
    /\ Contains(original, DoctorMarker)
    /\ ~Contains(lower(original), patient_marker)
    /\ Len(original) > Len(DoctorMarker)
    /\ result = original
    /\ calls = 0

---------------------------------------------------------------------------
(* Properties of the retry loop of generate_soap, under SpecRetryLoop      *)

C11_unparsed_is_salvaged ==
    /\ fn = "soap"
    /\ resp.kind = "text"
    /\ resp.text # <<>>
    /\ ~response_values[resp].parsed.ok
    => /\ pc = "returned"
       /\ site = 468
       /\ note = response_values[resp].salvaged

\* C11, its case: the first response did not parse, a pass was left, and the
\* note returned holds a value salvage found in the text
C11_first_unparsed_returns_salvaged ==
    /\ fn = "soap"
    /\ pc = "returned"
    /\ site = 468
    /\ calls = 1
    /\ calls < max_retries
    /\ ~response_values[resp].parsed.ok
    /\ note # _empty_soap_note


---------------------------------------------------------------------------
(* Properties of the two retry loops, under SpecBothLoops                  *)

\* C12: in either function an empty response uses up one pass and leads to
\* the next one; an empty response on the last pass, the second call, ends
\* the invocation, correct_diarization with the transcript as passed in and
\* generate_soap with the all-sentinel note
C12_empty_response_consumes_attempt ==
    /\ fn \in {"correct", "soap"}
    /\ resp.kind = "text"
    /\ resp.text = <<>>
    => /\ attempt = calls
       /\ calls < max_retries => pc = "loop"
       /\ calls >= max_retries =>
              /\ calls = max_retries
              /\ pc = "returned"
              /\ fn = "correct" => site = 389 /\ result = original
              /\ fn = "soap" => site = 480 /\ note = _empty_soap_note

\* C12, its case: both calls of correct_diarization came back empty for a
\* transcript that normalization changes, and the transcript was
\* returned as passed in
C12_two_calls_then_original ==
    /\ fn = "correct"
    /\ pc = "returned"
    /\ site = 389
    /\ calls = max_retries
    /\ prev = ModelReturns(<<>>)
    /\ resp = ModelReturns(<<>>)
    /\ original # transcript
    /\ result = original


\* C13: an exception of the model on a pass that is not the last leads to
\* the next pass; a response after it that the function accepts (the word
\* check passes; the text parses as a mapping of strings) is returned as on
\* a first pass; an exception on the last pass ends the invocation with the
\* fallback: the transcript as passed in, or the all-sentinel note
C13_exception_is_retried ==
    fn \in {"correct", "soap"} =>
        /\ resp.kind = "raise" /\ calls < max_retries =>
               pc = "loop" /\ attempt = calls
        /\ resp.kind = "raise" /\ calls >= max_retries =>
               /\ calls = max_retries
               /\ pc = "returned"
               /\ fn = "correct" => site = 393 /\ result = original
               /\ fn = "soap" => site = 484 /\ note = _empty_soap_note
        /\ prev.kind = "raise" /\ resp.kind = "text" /\ resp.text # <<>> =>
               /\ calls = max_retries
               /\ pc = "returned"
               /\ (/\ fn = "correct"
                   /\ correction_values[resp].words = word_tokens(transcript))
                  => site = 380 /\ result = correction_values[resp].corrected
               /\ (/\ fn = "soap"
                   /\ response_values[resp].parsed.ok
                   /\ response_values[resp].parsed.val.t = "obj"
                   /\ \A k \in DOMAIN response_values[resp].parsed.val.d :
                          response_values[resp].parsed.val.d[k].t = "str")
                  => /\ site = 458
                     /\ note = validate_soap_json(
                                   response_values[resp].parsed.val.d)

\* C13, its case: the first call of generate_soap raised, the second came
\* back with a mapping, and the repaired note was returned
C13_raise_then_accepted_note ==
    /\ fn = "soap"
    /\ pc = "returned"
    /\ calls = max_retries
    /\ prev = ModelRaises
    /\ resp.kind = "text"
    /\ site = 458
    /\ note # _empty_soap_note


---------------------------------------------------------------------------
(* Properties of generate_soap from its entry on, under Spec               *)

\* C14: for a transcript that is not blank generate_soap gets the model's
\* response, and when that is a fenced JSON block holding only some of the
\* four keys it returns a note with those values kept as given and "Not
\* discussed" under every missing key
C14_fenced_partial_note_completed ==
    fn = "soap" /\ strip(original) # <<>> /\ Finished =>
        /\ pc = "returned"
        /\ resp # NoResponse
        /\ fenced_partial_note => given_values_kept

\* C14 within lines 424-484: once the loop is entered (SpecRetryLoop), a
\* fenced partial note ends the invocation with its values kept
C14_loop_completes_fenced_partial_note ==
    fn = "soap" /\ fenced_partial_note => given_values_kept /\ site = 458

\* C14 within lines 424-484, its case: the response of the scenario, fenced
\* and with Subjective alone, came back completed
C14_loop_subjective_only ==
    /\ fn = "soap"
    /\ fenced_partial_note
    /\ resp.text = OpenFenceJson \o OpenSubjective \o CloseBraceAndFence
    /\ given_values_kept
    /\ note[KeySubjective] # Str(NotDiscussed)
    /\ note[KeyPlan] = Str(NotDiscussed)


\* C15: for a transcript that is empty or holds only whitespace generate_soap
\* returns at once, at line 413, the note whose four required keys all hold
\* "Not discussed", and the model is not called
C15_blank_returns_sentinel_note ==
    fn = "soap" /\ strip(original) = <<>> =>
        /\ pc = "returned"
        /\ site = 413
        /\ calls = 0
        /\ resp = NoResponse
        /\ DOMAIN note = {KeySubjective, KeyObjective, KeyAssessment, KeyPlan}
        /\ \A k \in DOMAIN note : note[k] = Str(NotDiscussed)

\* C15, its case: generate_soap was called with a transcript of whitespace
\* only and has returned the all-sentinel note
C15_whitespace_only_returned ==
    /\ fn = "soap"
    /\ original = Blank
    /\ pc = "returned"
    /\ note = [k \in RequiredKeySet |-> Str(NotDiscussed)]


C17_normalize_idempotent ==
    /\ fn \in {"correct", "soap"}
    /\ transcript = preprocess_transcript(original)
    => preprocess_transcript(transcript) = transcript


---------------------------------------------------------------------------
(* Properties of two callers, under SpecTwoCallers                         *)

---------------------------------------------------------------------------
(* Properties of validate_correction, under Spec: the pairs it is given    *)
(* are the normalized transcript and the sanitized response of each pass   *)

\* C19: validate_correction leaves the role markers out of what it
\* compares: a response with the spoken words of the transcript in the same
\* order and the same markers in the same order, which differs from it only
\* in where the markers stand among the words, passes the check
C19_marker_positions_ignored ==
    /\ fn = "correct"
    /\ pc = "returned"
    /\ resp.kind = "text"
    /\ resp.text # <<>>
    /\ spoken_words(sanitized_correction(resp.text)) = spoken_words(transcript)
    /\ speaker_turns(sanitized_correction(resp.text)) = speaker_turns(transcript)
    => /\ validate_correction(transcript, sanitized_correction(resp.text))
       /\ site # 370

---------------------------------------------------------------------------
(* Properties of validate_speaker_labels, under Spec: it is given the      *)
(* transcript as passed in, and line 330 is taken when it returns False    *)

\* C21: validate_speaker_labels counts the markers in any letter case: it
\* returns False for a blank transcript and when "doctor:" or "patient:"
\* does not occur in the lower-cased transcript, and True for every other
\* transcript, so that correct_diarization goes on to normalize it
C21_markers_counted_in_any_case ==
    fn = "correct" /\ pc # "idle" =>
        \A counted \in {/\ strip(original) # <<>>
                         /\ count(lower(original), doctor_marker) > 0
                         /\ count(lower(original), patient_marker) > 0} :
            /\ validate_speaker_labels(original) <=> counted
            /\ counted => ~(pc = "returned" /\ site \in {325, 330})
            /\ ~counted => pc = "returned" /\ site \in {325, 330}


---------------------------------------------------------------------------
(* Properties of the pure functions of generate_soap, under SpecRetryLoop: *)
(* they are given what each pass makes of the model's response             *)

\* C22: for the mapping parsed from a response validate_soap_json returns a
\* mapping that has the four required keys, each with the value given when
\* that is a string, not empty once trimmed, and not n/a, na or none once
\* trimmed and lower-cased, and with "Not discussed" otherwise; a short
\* value is kept; the mapping is what line 458 returns
C22_required_keys_repaired ==
    /\ fn = "soap"
    /\ resp.kind = "text"
    /\ resp.text # <<>>
    /\ response_values[resp].parsed.ok
    /\ response_values[resp].parsed.val.t = "obj"
    => \A given \in {response_values[resp].parsed.val.d} :
       \A repaired \in {validate_soap_json(given)} :
           /\ {KeySubjective, KeyObjective, KeyAssessment, KeyPlan} \subseteq DOMAIN repaired
           /\ \A k \in {KeySubjective, KeyObjective, KeyAssessment, KeyPlan} :
                  repaired[k] =
                      IF /\ k \in DOMAIN given
                         /\ given[k].t = "str"
                         /\ strip(given[k].s) # <<>>
                         /\ lower(strip(given[k].s)) \notin
                                {<<"n", "/", "a">>, <<"n", "a">>, <<"n", "o", "n", "e">>}
                      THEN given[k]
                      ELSE Str(NotDiscussed)
           /\ site = 458 => note = repaired

\* C22, its case: the note with a short value, a placeholder, a number and
\* a blank value was returned with the short value kept and "Not discussed"
\* in place of the other three
C22_short_value_kept ==
    /\ fn = "soap"
    /\ pc = "returned"
    /\ site = 458
    /\ resp = ModelReturns(PlaceholderNote)
    /\ note[KeySubjective] = Str(<<"c", "o", "u", "g", "h">>)
    /\ note[KeyObjective] = Str(NotDiscussed)
    /\ note[KeyAssessment] = Str(NotDiscussed)
    /\ note[KeyPlan] = Str(NotDiscussed)


\* the latest response, trimmed, is one json-tagged fenced block: it starts
\* with the tagged fence, ends with a fence and has no fence in between
wrapped_in_json_block ==
    /\ fn = "soap"
    /\ resp.kind = "text"
    /\ \A s \in {strip(resp.text)} :
           /\ Len(s) >= Len(FenceJson) + Len(Fence)
           /\ startswith(s, FenceJson)
           /\ SubSeq(s, Len(s) - Len(Fence) + 1, Len(s)) = Fence
           /\ ~Contains(SubSeq(s, Len(FenceJson) + 1, Len(s) - Len(Fence)), Fence)

\* what stands between the two fences of that block, without the
\* whitespace at its ends
json_block_interior ==
    LET s == strip(resp.text)
    IN  strip(SubSeq(s, Len(FenceJson) + 1, Len(s) - Len(Fence)))

\* C23 as stated: for a response that is one json-tagged fenced block
\* clean_json_response returns what stands between the fences, whatever
\* that is
C23_fenced_interior_returned ==
    wrapped_in_json_block => response_values[resp].text = json_block_interior

\* C23: for a response that is one json-tagged fenced block
\* clean_json_response returns what stands between the fences when that
\* has no opening brace with a closing brace after it, and otherwise only
\* the part from its first opening brace to its last closing brace, the
\* text before and after that part dropped
C23_fenced_interior_or_brace_span ==
    wrapped_in_json_block =>
        \A interior \in {json_block_interior} :
        \A first \in {find(interior, <<"{">>, 1)} :
        \A last \in {rfind_char(interior, "}")} :
            response_values[resp].text =
                IF first # 0 /\ last > first THEN SubSeq(interior, first, last)
                ELSE interior

\* C23, its case: the block holds a note with a word before and a word
\* after it, and the note alone was parsed and returned
C23_prose_in_block_dropped ==
    /\ fn = "soap"
    /\ pc = "returned"
    /\ site = 458
    /\ resp = ModelReturns(FencedNoteInProse)
    /\ wrapped_in_json_block
    /\ response_values[resp].text # json_block_interior
    /\ response_values[resp].text = OpenSubjective \o <<"}">>
    /\ note[KeySubjective] = Str(<<"c", "o", "u", "g", "h">>)


\* the position at which the braces opened from position i on are all
\* closed again, depth braces being open before i; 0 when they never are
RECURSIVE balanced_end(_, _, _)
balanced_end(text, i, depth) ==
    IF i > Len(text) THEN 0
    ELSE IF text[i] = "{" THEN balanced_end(text, i + 1, depth + 1)
    ELSE IF text[i] = "}"
         THEN IF depth = 1 THEN i ELSE balanced_end(text, i + 1, depth - 1)
    ELSE balanced_end(text, i + 1, depth)

\* the first balanced brace span of the text, empty when it has none
first_balanced_span(text) ==
    LET first == find(text, <<"{">>, 1)
        last == IF first = 0 THEN 0 ELSE balanced_end(text, first, 0)
    IN  IF last = 0 THEN <<>> ELSE SubSeq(text, first, last)

\* C24: when the text left once the fences are removed holds a balanced
\* brace span, clean_json_response returns the first such span alone: of two
\* objects with words around and between them, the first object
C24_first_balanced_span_returned ==
    /\ fn = "soap"
    /\ resp.kind = "text"
    /\ wrapped_in_json_block \/ ~Contains(resp.text, Fence)
    => \A remaining \in {IF wrapped_in_json_block THEN json_block_interior
                          ELSE strip(resp.text)} :
       \A span \in {first_balanced_span(remaining)} :
           span # <<>> => response_values[resp].text = span


\* the pattern of line 514 for a section name matches the text at position
\* i: the quoted name, whitespace, a colon, whitespace, a quote and,
\* somewhere after it, another quote
section_matches_at(text, section, i) ==
    LET quoted == <<"\"">> \o section \o <<"\"">>
    IN  /\ MatchAt(text, quoted, i)
        /\ \E colon \in (i + Len(quoted))..Len(text) :
               /\ text[colon] = ":"
               /\ \A j \in (i + Len(quoted))..(colon - 1) : text[j] \in Whitespace
               /\ \E open \in (colon + 1)..Len(text) :
                      /\ text[open] = "\""
                      /\ \A j \in (colon + 1)..(open - 1) : text[j] \in Whitespace
                      /\ \E close \in (open + 1)..Len(text) : text[close] = "\""

\* what the pattern matching at position i captures: the text between the
\* quote that opens the value and the next quote
section_captured_at(text, section, i) ==
    LET quoted == <<"\"">> \o section \o <<"\"">>
        colon == CHOOSE c \in (i + Len(quoted))..Len(text) :
                     /\ text[c] = ":"
                     /\ \A j \in (i + Len(quoted))..(c - 1) : text[j] \in Whitespace
        open == CHOOSE o \in (colon + 1)..Len(text) :
                    /\ text[o] = "\""
                    /\ \A j \in (colon + 1)..(o - 1) : text[j] \in Whitespace
        close == CHOOSE c \in (open + 1)..Len(text) :
                     /\ text[c] = "\""
                     /\ \A j \in (open + 1)..(c - 1) : text[j] # "\""
    IN  SubSeq(text, open + 1, close - 1)

\* C25: _salvage_json, called with the text json.loads has failed on,
\* returns a note with the four required keys and no other, each with what
\* the leftmost match of "<Key>": "<value>" captures, and with "Not
\* discussed" when the text has no match; it returns a note whether or not
\* a key is found, and that note is what line 468 returns
C25_salvage_first_match ==
    /\ fn = "soap"
    /\ resp.kind = "text"
    /\ resp.text # <<>>
    /\ ~response_values[resp].parsed.ok
    => \A text \in {response_values[resp].text} :
       \A salvaged \in {response_values[resp].salvaged} :
           /\ DOMAIN salvaged = {KeySubjective, KeyObjective, KeyAssessment, KeyPlan}
           /\ \A k \in {KeySubjective, KeyObjective, KeyAssessment, KeyPlan} :
                  \A matches \in {{i \in 1..Len(text) : section_matches_at(text, k, i)}} :
                      salvaged[k] =
                          IF matches = {} THEN Str(NotDiscussed)
                          ELSE Str(section_captured_at(text, k,
                                       CHOOSE i \in matches : \A j \in matches : i <= j))
           /\ pc = "returned"
           /\ site = 468
           /\ note = salvaged

\* C25, its case: of the two values that follow the name Plan the first was
\* captured, the value of Subjective that is never closed was not, and the
\* two sections the text does not name hold "Not discussed"
C25_first_of_two_values_captured ==
    /\ fn = "soap"
    /\ pc = "returned"
    /\ site = 468
    /\ resp = ModelReturns(UnparsedSections)
    /\ note[KeyPlan] = Str(<<"r", "e", "s", "t">>)
    /\ note[KeySubjective] = Str(NotDiscussed)
    /\ note[KeyObjective] = Str(NotDiscussed)
    /\ note[KeyAssessment] = Str(NotDiscussed)


---------------------------------------------------------------------------
(* Properties of the calls the two retry loops make, under SpecBothLoops   *)

---------------------------------------------------------------------------
(* The database functions (src/database/patient_db.py)                     *)

\* seconds the clock runs through
MaxSeconds ==
    2

\* how many of the values of random.randint(100, 999) are drawn
MaxRandomComponents ==
    2

\* documents a container holds at most
MaxDocuments ==
    2

DecimalDigits ==
    <<"0", "1", "2", "3", "4", "5", "6", "7", "8", "9">>

RECURSIVE str(_)
\* str(n) of an int that is not negative: its decimal digits
str(n) ==
    IF n < 10 THEN <<DecimalDigits[n + 1]>>
    ELSE str(n \div 10) \o <<DecimalDigits[(n % 10) + 1]>>

\* a JSON number and a JSON string, as a document field or a query
\* parameter holds them
Number(n) ==
    [type |-> "number", value |-> n]

String(s) ==
    [type |-> "string", value |-> s]

\* c.field = @parameter in a query: values of different types are not equal
query_equal(field, parameter) ==
    /\ field.type = parameter.type
    /\ field.value = parameter.value

\* utils.encryption is imported from outside the sources at hand; what the
\* functions here rely on is that decrypt_text undoes encrypt_text and that
\* the stored text is not the plain one
encrypt_text(text) ==
    <<"ciphertext">> \o text

decrypt_text(data) ==
    Tail(data)

\* hashlib.sha256(...).hexdigest(): different texts have different digests
sha256_hexdigest(text) ==
    <<"sha256">> \o text

\* email_hash as create_logged_user and get_logged_user_by_email compute it
email_hash_of(email) ==
    sha256_hexdigest(lower(strip(email)))

\* the values random.randint(100, 999) is drawn from
RandomComponents ==
    100 .. (99 + MaxRandomComponents)

generate_numeric_id(random_component) ==
    now * 1000 + random_component

\* the values generate_user_id is drawn from
GeneratedUserIds ==
    {<<"u">> \o str(i) : i \in 1 .. MaxDocuments}

\* the user ids callers pass: two of the logged users
UserIds ==
    {<<"u", "1">>, <<"u", "2">>}

\* the patient ids callers pass: those of the patients stored, and the
\* first one the current second can give, stored or not
PatientIds ==
    {d.patient_id.value : d \in patients} \cup {generate_numeric_id(100)}

PatientNames ==
    {<<"A", "n", "n">>}

Emails ==
    {<<"a">>, <<" ", "A">>, <<"b">>}

AudioFileName ==
    <<"v">>

\* container.create_item finds a document of that id in the container
id_taken(container, id) ==
    \E d \in container : d.id = id

\* the ownership check accepting every caller
access_never_denied(patient, user_id) ==
    FALSE

\* the ownership check of get_patient_by_id
access_denied(patient, user_id) ==
    /\ user_id # <<>>
    /\ patient.user_id # user_id

\* the dict create_patient and get_patient_by_id return for a stored document
patient_returned(patient) ==
    [patient EXCEPT !.name = decrypt_text(@), !.id = patient.patient_id]

create_patient ==
    /\ Cardinality(patients) < MaxDocuments
    /\ \E name \in PatientNames, user_id \in UserIds \cup {<<>>},
          random_component \in RandomComponents :
         \E patient_id \in {generate_numeric_id(random_component)} :
         \E patient_doc \in {[id |-> String(str(patient_id)),
                              patient_id |-> Number(patient_id),
                              user_id |-> user_id,
                              name |-> encrypt_text(name)]} :
           IF user_id = <<>>
           THEN /\ db_call' = [no_call EXCEPT !.op = "create_patient",
                                              !.pc = "raised",
                                              !.error = "ValueError"]
                /\ UNCHANGED patients
           ELSE IF id_taken(patients, patient_doc.id)
           THEN /\ db_call' = [no_call EXCEPT !.op = "create_patient",
                                              !.pc = "raised",
                                              !.user_id = user_id,
                                              !.patient_id = patient_id,
                                              !.error = "Conflict"]
                /\ UNCHANGED patients
           ELSE /\ patients' = patients \cup {patient_doc}
                /\ db_call' = [no_call EXCEPT !.op = "create_patient",
                                              !.pc = "returned",
                                              !.user_id = user_id,
                                              !.patient_id = patient_id,
                                              !.returned =
                                                  {patient_returned(patient_doc)}]
    /\ UNCHANGED <<soap_records, voice_recordings, logged_users, blobs, now, user_call>>
    /\ UNCHANGED pipeline

\* get_patient_by_id from the ownership check on, patient being the
\* document the lookup found
get_patient_by_id_found(patient_id, user_id, patient, found_by) ==
    db_call' = [no_call EXCEPT !.op = "get_patient_by_id", !.pc = "returned",
                               !.patient_id = patient_id, !.user_id = user_id,
                               !.found_by = found_by, !.patient = {patient},
                               !.returned =
                                   IF access_denied(patient, user_id) THEN {}
                                   ELSE {patient_returned(patient)}]

\* read_item raises when no document has the id, and it may raise for a
\* reason of the service's; either way the query by patient_id follows
get_patient_by_id ==
    /\ \E patient_id \in PatientIds, user_id \in UserIds \cup {<<>>},
          read_item_raises \in BOOLEAN :
         \E by_id \in {{d \in patients : d.id = String(str(patient_id))}} :
         \E items \in {{d \in patients :
                           query_equal(d.patient_id, Number(patient_id))}} :
           IF by_id # {} /\ ~read_item_raises
           THEN \E patient \in by_id :
                    get_patient_by_id_found(patient_id, user_id, patient, "id")
           ELSE IF items = {}
           THEN db_call' = [no_call EXCEPT !.op = "get_patient_by_id",
                                           !.pc = "returned",
                                           !.patient_id = patient_id,
                                           !.user_id = user_id]
           ELSE \E patient \in items :
                    get_patient_by_id_found(patient_id, user_id, patient, "query")
    /\ UNCHANGED <<patients, soap_records, voice_recordings, logged_users, blobs, now,
                   user_call>>
    /\ UNCHANGED pipeline

\* storage_path of an uploaded recording
storage_path_of(patient_id) ==
    str(patient_id) \o <<"/">> \o str(now) \o <<"_">> \o AudioFileName

\* the dict save_soap_record returns for the stored record
record_returned(record, storage_path) ==
    [id |-> record.record_id, record_id |-> record.record_id,
     patient_id |-> record.patient_id, audio_file_name |-> record.audio_file_name,
     storage_path |-> storage_path]

\* audio: a recording is passed and its file is there; the recording is
\* uploaded before the record is written
save_soap_record ==
    /\ Cardinality(soap_records) < MaxDocuments
    /\ \E patient_id \in PatientIds, audio \in BOOLEAN,
          record_random \in RandomComponents, voice_random \in RandomComponents :
         \E storage_path \in {IF audio THEN storage_path_of(patient_id) ELSE <<>>} :
         \E record_id \in {generate_numeric_id(record_random)} :
         \E voice_id \in {generate_numeric_id(voice_random)} :
         \E soap_doc \in {[id |-> String(str(record_id)),
                           record_id |-> Number(record_id),
                           patient_id |-> Number(patient_id),
                           audio_file_name |-> IF audio THEN storage_path
                                               ELSE AudioFileName]} :
         \E voice_doc \in {[id |-> String(str(voice_id)),
                            voice_id |-> Number(voice_id),
                            patient_id |-> Number(patient_id),
                            soap_record_id |-> Number(record_id),
                            storage_path |-> storage_path]} :
           /\ blobs' = IF audio THEN blobs \cup {storage_path} ELSE blobs
           /\ IF id_taken(soap_records, soap_doc.id)
              THEN /\ UNCHANGED <<soap_records, voice_recordings>>
                   /\ db_call' = [no_call EXCEPT !.op = "save_soap_record",
                                                 !.pc = "raised",
                                                 !.patient_id = patient_id,
                                                 !.error = "Conflict"]
              ELSE /\ soap_records' = soap_records \cup {soap_doc}
                   /\ IF audio /\ id_taken(voice_recordings, voice_doc.id)
                      THEN /\ UNCHANGED voice_recordings
                           /\ db_call' = [no_call EXCEPT !.op = "save_soap_record",
                                                         !.pc = "raised",
                                                         !.patient_id = patient_id,
                                                         !.error = "Conflict"]
                      ELSE /\ voice_recordings' =
                                  IF audio THEN voice_recordings \cup {voice_doc}
                                  ELSE voice_recordings
                           /\ db_call' = [no_call EXCEPT !.op = "save_soap_record",
                                                         !.pc = "returned",
                                                         !.patient_id = patient_id,
                                                         !.returned =
                                                             {record_returned(soap_doc,
                                                                              storage_path)}]
    /\ UNCHANGED <<patients, logged_users, now, user_call>>
    /\ UNCHANGED pipeline

get_voice_recordings ==
    /\ \E patient_id \in PatientIds :
         \E patient_id_str \in {str(patient_id)} :
           db_call' = [no_call EXCEPT !.op = "get_voice_recordings",
                                      !.pc = "returned",
                                      !.patient_id = patient_id,
                                      !.returned =
                                          {d \in voice_recordings :
                                               query_equal(d.patient_id,
                                                           String(patient_id_str))}]
    /\ UNCHANGED <<patients, soap_records, voice_recordings, logged_users, blobs, now,
                   user_call>>
    /\ UNCHANGED pipeline

\* the dict the logged user functions return for a stored document
user_returned(user) ==
    [user EXCEPT !.email = decrypt_text(@)]

\* get_or_create_logged_user up to line 607: existing is what
\* get_logged_user_by_email returns, any of the documents the query finds
get_logged_user_by_email(c) ==
    /\ user_call[c].pc # "looked_up"
    /\ \E email \in Emails :
         \E users \in {{d \in logged_users : d.email_hash = email_hash_of(email)}} :
           IF users = {}
           THEN user_call' = [user_call EXCEPT ![c] =
                    [no_user_call EXCEPT !.pc = "looked_up", !.email = email]]
           ELSE \E user \in users :
                    user_call' = [user_call EXCEPT ![c] =
                        [no_user_call EXCEPT !.pc = "looked_up", !.email = email,
                                             !.existing = {user_returned(user)}]]
    /\ UNCHANGED <<patients, soap_records, voice_recordings, logged_users, blobs, now,
                   db_call>>
    /\ UNCHANGED pipeline

\* get_or_create_logged_user from line 608 on: existing is returned, or
\* create_logged_user runs with an id no document has
create_logged_user(c) ==
    /\ user_call[c].pc = "looked_up"
    /\ IF user_call[c].existing # {}
       THEN /\ user_call' = [user_call EXCEPT ![c].pc = "returned",
                                              ![c].returned = user_call[c].existing]
            /\ UNCHANGED logged_users
       ELSE /\ Cardinality(logged_users) < MaxDocuments
            /\ \E user_id \in {u \in GeneratedUserIds : ~id_taken(logged_users, String(u))} :
               \E user_doc \in {[id |-> String(user_id),
                                 email |-> encrypt_text(user_call[c].email),
                                 email_hash |-> email_hash_of(user_call[c].email)]} :
                 /\ logged_users' = logged_users \cup {user_doc}
                 /\ user_call' = [user_call EXCEPT ![c].pc = "returned",
                                                   ![c].returned =
                                                       {user_returned(user_doc)}]
    /\ UNCHANGED <<patients, soap_records, voice_recordings, blobs, now, db_call>>
    /\ UNCHANGED pipeline

\* a second passes
tick ==
    /\ now < MaxSeconds
    /\ now' = now + 1
    /\ UNCHANGED <<patients, soap_records, voice_recordings, logged_users, blobs,
                   db_call, user_call>>
    /\ UNCHANGED pipeline

PatientsNext ==
    \/ tick
    \/ create_patient
    \/ get_patient_by_id

SpecPatients ==
    Init /\ [][PatientsNext]_vars

RecordsNext ==
    \/ tick
    \/ save_soap_record
    \/ get_voice_recordings

SpecRecords ==
    Init /\ [][RecordsNext]_vars

LoggedUsersNext ==
    \/ \E c \in DbCallers : get_logged_user_by_email(c)
    \/ \E c \in DbCallers : create_logged_user(c)

SpecLoggedUsers ==
    Init /\ [][LoggedUsersNext]_vars

\* the functions that create documents under a generated id
CreationsNext ==
    \/ tick
    \/ create_patient
    \/ save_soap_record

SpecCreations ==
    Init /\ [][CreationsNext]_vars


---------------------------------------------------------------------------
(* Properties of the database functions                                    *)

\* the latest call is a get_patient_by_id that found, by the way named, a
\* document of a user other than the one passed
found_patient_of_another_user(found_by) ==
    /\ db_call.op = "get_patient_by_id"
    /\ db_call.user_id # <<>>
    /\ db_call.found_by = found_by
    /\ \E p \in db_call.patient : p.user_id # db_call.user_id

\* C27: a call of get_patient_by_id with a user_id that is not empty never
\* returns a patient document of another user: it returns None for it, be
\* the document found by its id or by the query on patient_id, and the call
\* leaves the documents stored as they are.
C27_patient_of_another_user_withheld ==
    /\ [](db_call.op = "get_patient_by_id" /\ db_call.user_id # <<>> =>
             /\ db_call.pc = "returned"
             /\ \A p \in db_call.returned : p.user_id = db_call.user_id
             /\ \A p \in db_call.patient :
                    p.user_id # db_call.user_id => db_call.returned = {})
    /\ [][db_call'.op = "get_patient_by_id" => patients' = patients]_vars

\* the read by id has failed on a stored document, the query has found it,
\* it belongs to another user and None is returned
C27_withheld_after_fallback_query ==
    /\ found_patient_of_another_user("query")
    /\ db_call.patient \subseteq patients
    /\ db_call.returned = {}


\* C28: whatever the interleaving of calls of get_or_create_logged_user,
\* logged_users holds at most one document per email hash (the hash of the
\* email trimmed and in lower case), and the calls made for one email all
\* return the same user id.
C28_one_logged_user_per_email ==
    /\ \A d1 \in logged_users, d2 \in logged_users :
           d1.email_hash = d2.email_hash => d1 = d2
    /\ \A c1 \in DbCallers, c2 \in DbCallers :
           (/\ user_call[c1].pc = "returned"
            /\ user_call[c2].pc = "returned"
            /\ email_hash_of(user_call[c1].email) = email_hash_of(user_call[c2].email))
           => \A u1 \in user_call[c1].returned, u2 \in user_call[c2].returned :
                  u1.id = u2.id


\* C29: a call of get_voice_recordings for a patient returns every
\* voice_recordings document save_soap_record has written for that patient:
\* the patient_id the document holds and the one the query asks for are the
\* same value of the same type.
C29_recordings_of_patient_returned ==
    db_call.op = "get_voice_recordings" =>
        \A d \in voice_recordings :
            d.patient_id.value = db_call.patient_id => d \in db_call.returned


\* C30: any two calls of generate_numeric_id return different ids, within
\* one second too: no two of the documents create_patient and
\* save_soap_record have stored under a generated id have the same id, and
\* neither function fails on an id that is taken.
C30_generated_ids_differ ==
    /\ db_call.error # "Conflict"
    /\ \A d1 \in patients, d2 \in soap_records \cup voice_recordings : d1.id # d2.id
    /\ \A d1 \in soap_records, d2 \in voice_recordings : d1.id # d2.id

=============================================================================
